---- MODULE Spec2Model ----
(***************************************************************************)
(* A model of the user controller of devwars-api                           *)
(* (src/app/controllers/user/User.controller.ts): the paged listings `all` *)
(* and `getUsersLeaderboards`, the `update` handler and the transactional  *)
(* `deleteUser` handler, each request an asynchronous task that is         *)
(* suspended at every await and interleaves with the other requests.       *)
(*                                                                         *)
(* Three specifications share the variables:                               *)
(*   Spec         concurrent deleteUser requests against the store         *)
(*   SpecUpdate   concurrent update requests against the user table        *)
(*   SpecPaging   one paged listing request, its inputs drawn by Init      *)
(***************************************************************************)
EXTENDS Integers, Sequences, FiniteSets, TLC

VARIABLES
    users,   \* the users table: user id -> row, its domain the rows that exist
    deps,    \* the nine dependent tables: table -> set of rows <<user id, n>>
    games,   \* the games table: game id -> storage.players (key -> player)
    del,     \* the deleteUser requests: request -> task state
    upd,     \* the update requests: request -> task state
    list     \* the paged listing request

vars == <<users, deps, games, del, upd, list>>

(***************************************************************************)
(* Bounds of the model.                                                    *)
(***************************************************************************)
\* Users in the store at start (ids 1..MaxUsers).
MaxUsers == 2
\* Games in the store (ids 1..MaxGames).
MaxGames == 2
\* Most rows one user owns in one dependent table.
MaxRows == 2
\* deleteUser requests (sequential or overlapping).
MaxDeletes == 2
\* update requests (sequential or overlapping).
MaxUpdates == 3
\* Rows the listing queries can see in total.
MaxListed == 2
\* The configured maximum id that bounds `after`; its value is set outside
\* the sources at hand, the model takes a small one.
DATABASE_MAX_ID == 120

\* parseIntWithDefault(first, 20, 1, 100): the default and the range of `first`.
DefaultFirst == 20
MinFirst == 1
MaxFirst == 100
\* parseIntWithDefault(after, 0, 0, DATABASE_MAX_ID).
DefaultAfter == 0
MinAfter == 0

Null == "null"

(***************************************************************************)
(* Paged listings: all (lines 168-198), getUsersLeaderboards (392-417).    *)
(***************************************************************************)

\* A query parameter as it arrives: absent, not a number, or a number.
Absent == [kind |-> "absent", n |-> 0]
NotANumber == [kind |-> "text", n |-> 0]
Num(n) == [kind |-> "num", n |-> n]

FirstInputs == {Absent, NotANumber} \cup {Num(n) : n \in -1..(MaxFirst + 1)}
AfterInputs == {Absent, NotANumber} \cup {Num(n) : n \in -1..(DATABASE_MAX_ID + 1)}

\* test/helpers parseIntWithDefault: the default for a missing or non-numeric
\* value, otherwise the number brought into [lower, upper].
parseIntWithDefault(value, def, lower, upper) ==
    IF value.kind # "num" THEN def
    ELSE IF value.n < lower THEN lower
    ELSE IF value.n > upper THEN upper
    ELSE value.n

\* lodash _.clamp(number, lower, upper): first capped by upper, then raised to lower.
clamp(number, lower, upper) ==
    LET capped == IF number <= upper THEN number ELSE upper
    IN  IF capped >= lower THEN capped ELSE lower

\* `${url}?first=${first}&after=${offset}`
PageLink(url, first, offset) ==
    url \o "?first=" \o ToString(first) \o "&after=" \o ToString(offset)

BeforeOffsetNoClamp(first, after) == after - first
\* The offset of the `before` link (lines 187, 406).
BeforeOffset(first, after) == clamp(after - first, 0, after)

AfterOffsetSame(first, after) == after
\* The offset of the `after` link (lines 188, 407).
AfterOffset(first, after) == after + first

\* The page the query layer returns: `first` rows from offset `after` of the
\* `total` rows it can see (findUsersWithPaging, LeaderboardRepository.findUsers).
PageLength(total, first, after) ==
    LET left == IF total > after THEN total - after ELSE 0
    IN  IF left < first THEN left ELSE first

\* The pagination object of a listing (lines 186-192, 405-411).
Pagination(url, first, after, length) ==
    LET before == PageLink(url, first, BeforeOffset(first, after))
        next == PageLink(url, first, AfterOffset(first, after))
    IN  [before |-> IF after = 0 THEN Null ELSE before,
         after |-> IF length = 0 THEN Null ELSE next]

\* `${request.protocol}://${request.get('host')}${request.baseUrl}${request.path}`
RequestUrl(handler) ==
    IF handler = "all" THEN "http://localhost:8080/users/"
    ELSE "http://localhost:8080/users/leaderboards"

NoPagination == [before |-> "", after |-> ""]

ListRequests ==
    [handler : {"all", "getUsersLeaderboards"}, pc : {"received"},
     first : FirstInputs, after : AfterInputs, total : 0..MaxListed,
     params : {[first |-> 0, after |-> 0]}, length : {0},
     pagination : {NoPagination}]

NoList ==
    [handler |-> "none", pc |-> "none", first |-> Absent, after |-> Absent,
     total |-> 0, params |-> [first |-> 0, after |-> 0], length |-> 0,
     pagination |-> NoPagination]

\* The body of both listing handlers: parse, query, build the links, respond.
Listing(handler) ==
    /\ list.pc = "received"
    /\ list.handler = handler
    /\ LET first == parseIntWithDefault(list.first, DefaultFirst, MinFirst, MaxFirst)
           after == parseIntWithDefault(list.after, DefaultAfter, MinAfter, DATABASE_MAX_ID)
           length == PageLength(list.total, first, after)
       IN  list' = [list EXCEPT
                      !.pc = "responded",
                      !.params = [first |-> first, after |-> after],
                      !.length = length,
                      !.pagination = Pagination(RequestUrl(handler), first, after, length)]
    /\ UNCHANGED <<users, deps, games, del, upd>>

all == Listing("all")

getUsersLeaderboards == Listing("getUsersLeaderboards")

(***************************************************************************)
(* The store: users, the nine dependent tables, games.                     *)
(***************************************************************************)
UserIds == 1..MaxUsers
GameIds == 1..MaxGames
DeleteIds == 1..MaxDeletes
UpdateIds == 1..MaxUpdates

\* UserRole (models/User): a totally ordered enum,
\* PENDING < USER < MODERATOR < ADMIN.
Roles == {"PENDING", "USER", "MODERATOR", "ADMIN"}
RoleRank(role) ==
    CASE role = "PENDING" -> 0
      [] role = "USER" -> 1
      [] role = "MODERATOR" -> 2
      [] role = "ADMIN" -> 3

\* The usernames in use at start, and one more that is free.
Username(n) == "user" \o ToString(n)
Usernames == {Username(n) : n \in 1..(MaxUsers + 1)}
Email(n) == "user" \o ToString(n) \o "@example.com"
NewEmail == "new@example.com"
NewPassword == "secret"
\* utils/hash: a one-way hash of the plain password.
hash(password) == "hash(" \o password \o ")"

DependentTablesNoApplications ==
    <<"Activity", "UserProfile", "EmailOptIn", "UserStats", "UserGameStats",
      "LinkedAccount", "PasswordReset", "EmailVerification">>
\* The entities deleteUser clears of the user's rows, in its order (lines 291-322).
DependentTables ==
    <<"Activity", "UserProfile", "EmailOptIn", "UserStats", "UserGameStats",
      "LinkedAccount", "PasswordReset", "EmailVerification", "GameApplication">>

\* The nine entities that reference a user by foreign key (spec, section 3).
TableNames ==
    {"Activity", "UserProfile", "EmailOptIn", "UserStats", "UserGameStats",
     "LinkedAccount", "PasswordReset", "EmailVerification", "GameApplication"}

TableIndex(t) ==
    CASE t = "Activity" -> 1
      [] t = "UserProfile" -> 2
      [] t = "EmailOptIn" -> 3
      [] t = "UserStats" -> 4
      [] t = "UserGameStats" -> 5
      [] t = "LinkedAccount" -> 6
      [] t = "PasswordReset" -> 7
      [] t = "EmailVerification" -> 8
      [] t = "GameApplication" -> 9

\* The rows of the store at start: user u owns 0..MaxRows rows of each table.
InitRowsOf(t, u) == {<<u, n>> : n \in 1..((TableIndex(t) + u) % (MaxRows + 1))}
InitDeps == [t \in TableNames |-> UNION {InitRowsOf(t, u) : u \in UserIds}]

\* Game g lists the users u >= g as players, in two teams.
InitPlayers(g) ==
    [u \in {v \in UserIds : v >= g} |->
        [id |-> u, team |-> (u + g) % 2, username |-> Username(u)]]
InitGames == [g \in GameIds |-> InitPlayers(g)]

InitUser(u, role) ==
    [username |-> Username(u), email |-> Email(u),
     password |-> hash(Username(u)), role |-> role]

\* The rows of table t that reference user u.
RowsOf(rows, u) == {r \in rows : r[1] = u}

\* A function without the keys in `gone`.
Without(f, gone) == [k \in DOMAIN f \ gone |-> f[k]]

\* f with the entries of g written over it.
Overlay(f, g) == [k \in DOMAIN f \cup DOMAIN g |-> IF k \in DOMAIN g THEN g[k] ELSE f[k]]

EmptyMap == [k \in {} |-> 0]


(***************************************************************************)
(* deleteUser (lines 276-352).  A request is bound to its user by the      *)
(* upstream middleware, refused for a protected role, and otherwise runs   *)
(* one transaction: what the transaction writes is held in the task        *)
(* (removed, saved, userRemoved) under row locks until it commits, and is  *)
(* dropped when any of its steps fails.                                    *)
(***************************************************************************)
NoUser == [id |-> 0, role |-> "PENDING"]
NoResponse == [code |-> 0, user |-> 0]

IdleDelete ==
    [pc |-> "idle", target |-> 0, boundUser |-> NoUser, table |-> 0,
     found |-> {}, related |-> <<>>, idx |-> 0, removed |-> {}, saved |-> EmptyMap,
     userRemoved |-> FALSE, resp |-> NoResponse]

\* A request that has responded keeps its target, its bound user and its response.
Responded(task, code, user) ==
    [IdleDelete EXCEPT !.pc = "done", !.target = task.target,
                       !.boundUser = task.boundUser,
                       !.resp = [code |-> code, user |-> user]]

InTransaction(task) == task.pc \in {"find", "remove", "games", "patch", "user", "commit"}

\* The rows other open transactions have written and hold locked.
LockedDeps(d) == UNION {del[o].removed : o \in {x \in DeleteIds \ {d} : InTransaction(del[x])}}
LockedGames(d) == UNION {DOMAIN del[o].saved : o \in {x \in DeleteIds \ {d} : InTransaction(del[x])}}
LockedUsers(d) ==
    {del[o].boundUser.id : o \in {x \in DeleteIds \ {d} : InTransaction(del[x]) /\ del[x].userRemoved}}

\* What the transaction of d reads: the committed rows less its own removals,
\* the committed games under its own saves.
TxRows(d, t) == deps[t] \ {r[2] : r \in {w \in del[d].removed : w[1] = t}}
TxGames(d) == Overlay(games, del[d].saved)

\* The user middleware: binds the user of the :user parameter to the request,
\* or answers 404 when there is none.  Requests are numbered as they arrive.
BindUser(d, u) ==
    /\ del[d].pc = "idle"
    /\ \A o \in DeleteIds : o < d => del[o].pc # "idle"
    /\ IF u \in DOMAIN users
         THEN del' = [del EXCEPT ![d] = [@ EXCEPT !.pc = "handler", !.target = u,
                                         !.boundUser = [id |-> u, role |-> users[u].role]]]
         ELSE del' = [del EXCEPT ![d] = Responded([@ EXCEPT !.target = u], 404, 0)]
    /\ UNCHANGED <<users, deps, games, upd, list>>

IsProtectedStrict(role) == RoleRank(role) < RoleRank("MODERATOR")
\* removingUser.role <= UserRole.MODERATOR (line 280)
IsProtected(role) == RoleRank(role) <= RoleRank("MODERATOR")

\* Lines 277-285: the role check, then the transaction starts.
DeleteGuard(d) ==
    /\ del[d].pc = "handler"
    /\ IF IsProtected(del[d].boundUser.role)
         THEN del' = [del EXCEPT ![d] = Responded(@, 400, 0)]
         ELSE del' = [del EXCEPT ![d] = [@ EXCEPT !.pc = "find", !.table = 1]]
    /\ UNCHANGED <<users, deps, games, upd, list>>

\* transaction.find(<table>, whereOptions) (lines 291-321, one table at a time):
\* the rows of the table that reference the user.
FindDependents(d) ==
    /\ del[d].pc = "find"
    /\ LET t == DependentTables[del[d].table]
       IN  del' = [del EXCEPT ![d] =
                     [@ EXCEPT !.found = {<<t, r>> : r \in RowsOf(TxRows(d, t), del[d].boundUser.id)},
                               !.pc = "remove"]]
    /\ UNCHANGED <<users, deps, games, upd, list>>

\* transaction.remove(<rows found>) (lines 292-322, one table at a time).
\* A transaction that turns to the games while one dependent table is still
\* to be removed.
LastRemovalEarly(table) == table >= Len(DependentTables) - 1

\* The removal after which the transaction turns to the games: the ninth,
\* of the GameApplication rows.
LastRemoval(table) == table = Len(DependentTables)

RemoveDependents(d) ==
    /\ del[d].pc = "remove"
    /\ del[d].found \cap LockedDeps(d) = {}
    /\ LET last == LastRemoval(del[d].table)
       IN  del' = [del EXCEPT ![d] =
                     [@ EXCEPT !.removed = @ \cup del[d].found,
                               !.found = {},
                               !.table = IF last THEN 0 ELSE @ + 1,
                               !.pc = IF last THEN "games" ELSE "find"]]
    /\ UNCHANGED <<users, deps, games, upd, list>>

\* The games, by id, among `ids`, as loaded entities.
RECURSIVE LoadGames(_, _)
LoadGames(view, ids) ==
    IF ids = {} THEN <<>>
    ELSE LET g == CHOOSE x \in ids : \A y \in ids : x <= y
         IN  <<[id |-> g, players |-> view[g]]>> \o LoadGames(view, ids \ {g})

\* Lines 324-329: the games whose storage.players has the user's id as a key.
FindRelatedGames(d) ==
    /\ del[d].pc = "games"
    /\ LET view == TxGames(d)
           related == LoadGames(view, {g \in DOMAIN view : del[d].boundUser.id \in DOMAIN view[g]})
       IN  del' = [del EXCEPT ![d] =
                     [@ EXCEPT !.related = related, !.idx = 1,
                               !.pc = IF related = <<>> THEN "user" ELSE "patch"]]
    /\ UNCHANGED <<users, deps, games, upd, list>>

SentinelNoTeam(player) == [id |-> 0, team |-> 0, username |-> "Competitor"]
\* { id: 0, team: player.team, username: 'Competitor' } (line 342)
Sentinel(player) == [id |-> 0, team |-> player.team, username |-> "Competitor"]

\* Lines 331-345, one game at a time: put the sentinel under the user's key
\* of the loaded game and save the game.
PatchGame(d) ==
    /\ del[d].pc = "patch"
    /\ LET game == del[d].related[del[d].idx]
           u == del[d].boundUser.id
           last == del[d].idx = Len(del[d].related)
           patched == [game.players EXCEPT ![u] = Sentinel(@)]
       IN  IF u \in DOMAIN game.players
             THEN /\ game.id \notin LockedGames(d)
                  /\ del' = [del EXCEPT ![d] =
                               [@ EXCEPT !.saved = Overlay(@, [g \in {game.id} |-> patched]),
                                         !.idx = @ + 1,
                                         !.pc = IF last THEN "user" ELSE "patch"]]
             ELSE del' = [del EXCEPT ![d] =
                            [@ EXCEPT !.idx = @ + 1,
                                      !.pc = IF last THEN "user" ELSE "patch"]]
    /\ UNCHANGED <<users, deps, games, upd, list>>

UserRowKept(task) == task
\* transaction.remove(removingUser) (line 348): the user row joins the
\* transaction's removals.
UserRowRemoved(task) == [task EXCEPT !.userRemoved = TRUE]

RemoveUser(d) ==
    /\ del[d].pc = "user"
    /\ del[d].boundUser.id \notin LockedUsers(d)
    /\ del' = [del EXCEPT ![d] = [UserRowRemoved(@) EXCEPT !.pc = "commit"]]
    /\ UNCHANGED <<users, deps, games, upd, list>>

\* The store with the writes of a transaction applied.
Written(task) ==
    [users |-> IF task.userRemoved THEN Without(users, {task.boundUser.id}) ELSE users,
     deps |-> [t \in DOMAIN deps |-> deps[t] \ {r[2] : r \in {w \in task.removed : w[1] = t}}],
     games |-> Overlay(games, task.saved)]

\* The transaction commits and the handler answers { user: removingUserId }
\* (lines 349-351).
Commit(d) ==
    /\ del[d].pc = "commit"
    /\ users' = Written(del[d]).users
    /\ deps' = Written(del[d]).deps
    /\ games' = Written(del[d]).games
    /\ del' = [del EXCEPT ![d] = Responded(@, 200, @.boundUser.id)]
    /\ UNCHANGED <<upd, list>>

RolledBackPartly(task) == Written(task)
\* The store after a transaction is rolled back: as committed, none of the
\* transaction's writes in it.
RolledBack(task) == [users |-> users, deps |-> deps, games |-> games]

\* A step of the transaction throws: the transaction is rolled back and the
\* request fails (line 285: every step runs on the transaction's manager).
Fail(d) ==
    /\ InTransaction(del[d])
    /\ users' = RolledBack(del[d]).users
    /\ deps' = RolledBack(del[d]).deps
    /\ games' = RolledBack(del[d]).games
    /\ del' = [del EXCEPT ![d] = Responded(@, 500, 0)]
    /\ UNCHANGED <<upd, list>>

(***************************************************************************)
(* update (lines 245-265).  The request is bound to its user, looks the    *)
(* body's username up, answers 409 when it is another user's, hashes the   *)
(* body's password, merges the body onto the bound entity and saves it.    *)
(***************************************************************************)
Fields == {"username", "email", "password"}

\* The request bodies: any subset of the fields, each with a value of its kind.
Bodies ==
    {b \in UNION {[F -> Usernames \cup {NewEmail, NewPassword}] : F \in SUBSET Fields} :
        /\ "username" \in DOMAIN b => b["username"] \in Usernames
        /\ "email" \in DOMAIN b => b["email"] = NewEmail
        /\ "password" \in DOMAIN b => b["password"] = NewPassword}

NoEntity == [id |-> 0, username |-> "", email |-> "", password |-> "", role |-> "PENDING"]

IdleUpdate == [pc |-> "idle", boundUser |-> NoEntity, body |-> EmptyMap, code |-> 0]
IdleUpdates == [r \in UpdateIds |-> IdleUpdate]

\* The entity of a row, and the row of an entity.
Entity(u, row) == [id |-> u, username |-> row.username, email |-> row.email,
                   password |-> row.password, role |-> row.role]
Row(entity) == [username |-> entity.username, email |-> entity.email,
                password |-> entity.password, role |-> entity.role]

\* The user middleware binds the user of the :user parameter; the handler
\* reads the body (line 246).
BindUpdate(r, u, body) ==
    /\ upd[r].pc = "idle"
    /\ \A o \in UpdateIds : o < r => upd[o].pc # "idle"
    /\ u \in DOMAIN users
    /\ upd' = [upd EXCEPT ![r] = [@ EXCEPT !.pc = "find", !.boundUser = Entity(u, users[u]),
                                          !.body = body]]
    /\ UNCHANGED <<users, deps, games, del, list>>

\* UserRepository.findByUsername: the ids the lookup can return, 0 for none
\* (one of the users with that username).
findByUsername(body) ==
    LET found == IF "username" \in DOMAIN body
                   THEN {v \in DOMAIN users : users[v].username = body["username"]}
                   ELSE {}
    IN  IF found = {} THEN {0} ELSE found

\* !_.isNil(existingUsername) && existingUsername.id !== request.boundUser.id (line 251)
Conflicts(existing, entity) == existing # 0 /\ existing # entity.id

\* Object.assign(request.boundUser, params) (line 261)
Assign(entity, body) ==
    [f \in DOMAIN entity |-> IF f \in DOMAIN body THEN body[f] ELSE entity[f]]

\* Lines 249-261: the lookup answers; 409 on a conflict; otherwise the password,
\* if any, goes to be hashed, or the body is merged and the save is issued.
CheckUsername(r) ==
    /\ upd[r].pc = "find"
    /\ \E existing \in findByUsername(upd[r].body) :
         IF Conflicts(existing, upd[r].boundUser)
           THEN upd' = [upd EXCEPT ![r] = [@ EXCEPT !.pc = "done", !.code = 409]]
           ELSE IF "password" \in DOMAIN upd[r].body
                  THEN upd' = [upd EXCEPT ![r] = [@ EXCEPT !.pc = "hash"]]
                  ELSE upd' = [upd EXCEPT ![r] =
                                 [@ EXCEPT !.pc = "save", !.boundUser = Assign(@, upd[r].body)]]
    /\ UNCHANGED <<users, deps, games, del, list>>

\* Lines 259-261: the hash answers; the body, its password hashed, is merged
\* onto the bound entity and the save is issued.
HashPassword(r) ==
    /\ upd[r].pc = "hash"
    /\ LET hashed == [upd[r].body EXCEPT !["password"] = hash(@)]
       IN  upd' = [upd EXCEPT ![r] =
                     [@ EXCEPT !.pc = "save", !.body = hashed,
                               !.boundUser = Assign(@, hashed)]]
    /\ UNCHANGED <<users, deps, games, del, list>>

\* request.boundUser.save() (line 262) writes the entity's row; the handler
\* answers with the entity (line 264).
SaveUser(r) ==
    /\ upd[r].pc = "save"
    /\ users' = Overlay(users, [u \in {upd[r].boundUser.id} |-> Row(upd[r].boundUser)])
    /\ upd' = [upd EXCEPT ![r] = [@ EXCEPT !.pc = "done", !.code = 200]]
    /\ UNCHANGED <<deps, games, del, list>>

Init ==
    /\ \E roles \in [UserIds -> Roles] : users = [u \in UserIds |-> InitUser(u, roles[u])]
    /\ deps = InitDeps
    /\ games = InitGames
    /\ del = [d \in DeleteIds |-> IdleDelete]
    /\ upd = IdleUpdates
    /\ list = NoList

Next ==
    \/ \E d \in DeleteIds, u \in UserIds : BindUser(d, u)
    \/ \E d \in DeleteIds : DeleteGuard(d)
    \/ \E d \in DeleteIds : FindDependents(d)
    \/ \E d \in DeleteIds : RemoveDependents(d)
    \/ \E d \in DeleteIds : FindRelatedGames(d)
    \/ \E d \in DeleteIds : PatchGame(d)
    \/ \E d \in DeleteIds : RemoveUser(d)
    \/ \E d \in DeleteIds : Commit(d)
    \/ \E d \in DeleteIds : Fail(d)

Spec == Init /\ [][Next]_vars

InitUpdate ==
    /\ users = [u \in UserIds |-> InitUser(u, "USER")]
    /\ deps = InitDeps
    /\ games = InitGames
    /\ del = [d \in DeleteIds |-> IdleDelete]
    /\ upd = IdleUpdates
    /\ list = NoList

NextUpdate ==
    \/ \E r \in UpdateIds, u \in UserIds, body \in Bodies : BindUpdate(r, u, body)
    \/ \E r \in UpdateIds : CheckUsername(r)
    \/ \E r \in UpdateIds : HashPassword(r)
    \/ \E r \in UpdateIds : SaveUser(r)

SpecUpdate == InitUpdate /\ [][NextUpdate]_vars

InitPaging ==
    /\ users = [u \in UserIds |-> InitUser(u, "USER")]
    /\ deps = InitDeps
    /\ games = InitGames
    /\ del = [d \in DeleteIds |-> IdleDelete]
    /\ upd = IdleUpdates
    /\ list \in ListRequests

NextPaging ==
    \/ all
    \/ getUsersLeaderboards

SpecPaging == InitPaging /\ [][NextPaging]_vars

(***************************************************************************)
(* Properties of deleteUser, checked under Spec.                           *)
(***************************************************************************)
store == <<users, deps, games>>

\* In this step the transaction of request d commits.
Commits(d) == del[d].pc = "commit" /\ del'[d].pc = "done" /\ del'[d].resp.code = 200
\* Request d has answered 200.
Succeeded(d) == del[d].pc = "done" /\ del[d].resp.code = 200

\* What a query sees of user u: the row and all its dependent rows, or none of them.
WholeOrGone(u) ==
    \/ /\ u \in DOMAIN users
       /\ \A t \in TableNames : RowsOf(deps[t], u) = InitRowsOf(t, u)
    \/ /\ u \notin DOMAIN users
       /\ \A t \in TableNames : RowsOf(deps[t], u) = {}

\* A step changes the store only when a transaction commits, and a request
\* that fails (500) leaves the store as it is.
AllOrNothingStep ==
    /\ store' # store => \E d \in DeleteIds : Commits(d)
    /\ \A d \in DeleteIds :
         (del[d].pc # "done" /\ del'[d].pc = "done" /\ del'[d].resp.code = 500)
            => store' = store

\* C1: deleteUser is all-or-nothing and isolated: a failed step of the
\* transaction leaves the store as it was, and at every point of every
\* interleaving the committed store, which is what a concurrent reader sees,
\* shows each user either with its row and all its dependent rows or with
\* neither (never some dependents gone, never the row gone and dependents left).
C1_AtomicIsolated == [](\A u \in UserIds : WholeOrGone(u)) /\ [][AllOrNothingStep]_vars

\* A transaction with removals and a game save pending while another request
\* has failed inside its transaction.
C1_Witness ==
    \E d, o \in DeleteIds :
        /\ InTransaction(del[d]) /\ del[d].removed # {} /\ DOMAIN del[d].saved # {}
        /\ del[o].pc = "done" /\ del[o].resp.code = 500

\* C2: once deleteUser has succeeded for user U, the user row of U is gone, no
\* row of the nine dependent tables references U, and the response carries U's id.
C2_NothingReferencesDeleted ==
    \A d \in DeleteIds :
        Succeeded(d) =>
            /\ del[d].target \notin DOMAIN users
            /\ \A t \in TableNames : RowsOf(deps[t], del[d].target) = {}
            /\ del[d].resp.user = del[d].target

\* A successful deleteUser of a user that owned GameApplication rows.
C2_Witness ==
    \E d \in DeleteIds :
        /\ Succeeded(d)
        /\ InitRowsOf("GameApplication", del[d].target) # {}
        /\ InitRowsOf("Activity", del[d].target) # {}

C6_RetryNotFound ==
    [][\A d \in DeleteIds :
          (del[d].pc = "idle" /\ del'[d].pc # "idle"
             /\ \E o \in DeleteIds : Succeeded(o) /\ del[o].target = del'[d].target)
            => del'[d].pc = "done" /\ del'[d].resp.code = 404 /\ store' = store]_vars

\* A deleteUser answered 404 for the user an earlier one removed.
C6_Witness ==
    \E d, o \in DeleteIds :
        /\ Succeeded(o)
        /\ del[d].pc = "done" /\ del[d].resp.code = 404
        /\ del[d].target = del[o].target

ListResponded(handler) == list.pc = "responded" /\ list.handler = handler

\* C9: in both listings, with first in 1..100 and after >= 0 as parsed,
\* pagination.before is null exactly when after = 0 and otherwise is the
\* request URL with the same first and the offset max(after - first, 0);
\* first=5, after=40 gives after=35.
C9_BeforeLink ==
    list.pc = "responded" =>
        LET first == list.params.first
            after == list.params.after
            offset == IF after - first > 0 THEN after - first ELSE 0
        IN  /\ first \in 1..100 /\ after >= 0
            /\ list.pagination.before = Null <=> after = 0
            /\ after # 0 =>
                 list.pagination.before =
                    RequestUrl(list.handler) \o "?first=" \o ToString(first)
                        \o "&after=" \o ToString(offset)
            /\ (list.handler = "getUsersLeaderboards" /\ list.first = Num(5) /\ list.after = Num(40))
                 => list.pagination.before = "http://localhost:8080/users/leaderboards?first=5&after=35"

\* A listing answered with a before link whose offset was held at 0.
C9_Witness ==
    /\ ListResponded("all")
    /\ list.params.after > 0 /\ list.params.after < list.params.first
    /\ list.pagination.before = "http://localhost:8080/users/?first=20&after=0"

\* C10: in both listings, pagination.after is null exactly when the page the
\* query layer returned is empty, and otherwise is the request URL with the
\* same first and the offset after + first.
C10_AfterLink ==
    list.pc = "responded" =>
        LET first == list.params.first
            after == list.params.after
        IN  /\ list.pagination.after = Null <=> list.length = 0
            /\ list.length # 0 =>
                 list.pagination.after =
                    RequestUrl(list.handler) \o "?first=" \o ToString(first)
                        \o "&after=" \o ToString(after + first)

\* A leaderboard listing that returned rows from a later page, with its after link.
C10_Witness ==
    /\ ListResponded("getUsersLeaderboards")
    /\ list.length > 0 /\ list.params.after > 0
    /\ list.pagination.after = "http://localhost:8080/users/leaderboards?first=1&after=2"

\* C11: inside one deleteUser transaction the nine dependent removals are all
\* complete before the scan of the games begins, no game is loaded or saved
\* while a dependent removal is still to come, and the user row is removed
\* last: when it is removed, the transaction sees no dependent row of the
\* user and has saved every game that had the user as a player, and it
\* removes and saves nothing afterwards.
C11_Scanning(d) == del[d].pc \in {"games", "patch", "user", "commit"}

C11_RemovalsDone(d) ==
    \A t \in TableNames : RowsOf(TxRows(d, t), del[d].boundUser.id) = {}

C11_GamesSaved(d) ==
    /\ \A i \in 1..Len(del[d].related) : del[d].related[i].id \in DOMAIN del[d].saved
    /\ \A g \in GameIds :
          del[d].boundUser.id \in DOMAIN TxGames(d)[g]
              => TxGames(d)[g][del[d].boundUser.id].id = 0

C11_Order(d) ==
    /\ C11_Scanning(d) => C11_RemovalsDone(d)
    /\ del[d].pc \in {"find", "remove"} =>
          /\ del[d].related = <<>>
          /\ del[d].saved = EmptyMap
          /\ ~del[d].userRemoved
    /\ del[d].pc \in {"games", "patch", "user"} => ~del[d].userRemoved
    /\ del[d].userRemoved =>
          /\ del[d].pc = "commit"
          /\ C11_RemovalsDone(d)
          /\ C11_GamesSaved(d)

C11_RemovalOrder ==
    /\ [](\A d \in DeleteIds : C11_Order(d))
    /\ [][\A d \in DeleteIds :
            del[d].userRemoved /\ InTransaction(del'[d]) =>
                /\ del'[d].removed = del[d].removed
                /\ del'[d].saved = del[d].saved]_vars

\* A transaction that removed dependent rows, among them GameApplication rows,
\* then saved a game, and only then removed the user row.
C11_Witness ==
    \E d \in DeleteIds :
        /\ del[d].pc = "commit" /\ del[d].userRemoved
        /\ \E w \in del[d].removed : w[1] = "GameApplication"
        /\ \E w \in del[d].removed : w[1] = "Activity"
        /\ DOMAIN del[d].saved # {}

\* C12: once every deleteUser call that was made has succeeded, every game's
\* storage.players has the keys it had before the calls, the entry of a user
\* that was not deleted is the entry it was, and the entry of every deleted
\* user is, under that user's own key, the sentinel with that user's team.
C12_AllSucceeded ==
    \A d \in DeleteIds : del[d].pc = "idle" \/ Succeeded(d)

C12_Deleted(u) ==
    \E d \in DeleteIds : Succeeded(d) /\ del[d].target = u

C12_SlotsKept ==
    C12_AllSucceeded =>
        \A g \in GameIds :
            /\ DOMAIN games[g] = DOMAIN InitGames[g]
            /\ \A u \in DOMAIN InitGames[g] :
                  IF C12_Deleted(u)
                  THEN games[g][u] = [id |-> 0, team |-> InitGames[g][u].team,
                                      username |-> "Competitor"]
                  ELSE games[g][u] = InitGames[g][u]

====
